---- MODULE Spec2Model ----
(***************************************************************************)
(* A model of prstack (src/python/prstack/prstack.py): a stack of          *)
(* dependent branches, each backed by a pull request.                      *)
(*                                                                         *)
(* Branch names "prstack-<name>-<n>" are modelled as <<"prstack", n>> (the *)
(* stack name is fixed), the default branch as <<"default", 0>>, a title   *)
(* "<n>) <subject>" as <<n, subject>>, and the sha of the i-th commit of   *)
(* the range base..HEAD as the number i.                                   *)
(***************************************************************************)
EXTENDS Integers, Sequences, FiniteSets, TLC

\* ------------------------------------------------------------------ bounds

\* commits in the range base..HEAD that generate enumerates: 0..MaxCommits
MaxCommits == 2
\* the persisted stack never grows beyond MaxItems items (extend is capped)
MaxItems == 3

\* the titles extend is called with; a subject is a pair, as CommitSubject
Titles == {<<"a", 0>>}

\* the subject of the i-th commit of the range, as git log reports it
CommitSubject(i) == <<"commit", i>>

VARIABLES
    stack,      \* the persisted stack file: a sequence of to_dict records
    last,       \* the last command run: [op, num, raised, rep]; raised says that
                \* it ended in an exception, rep that it repeats the command
                \* before it (same operation, same argument)
    loaded,     \* what the last Stack.load call returned: [incl, items]
    rb,         \* the rebase_all run: [status, start, items, i, step]
    vcsLog,     \* the version-control commands the rebase_all run has issued,
                \* in order: [op, item, arg, ok]; item is the index of the
                \* item in the list rebase_all loaded
    remoteBody, \* the body of one pull request on the review service: a
                \* sequence of characters
    edited,     \* the last PullRequest.edit of that pull request:
                \* [status, prefix, old, new]
    pr,         \* the review service: for each branch its pull request,
                \* [state, marker, base, title, body]: the state ("NotFound"
                \* for none), whether the body holds the marker, and the head
                \* of the body [k, links] (the line with the turtle, 0-based,
                \* and the links of the lines)
    sync,       \* the ensure_prs runs: [status, runs, outside, before]; runs
                \* counts the runs started, outside the changes others made
                \* to pull requests, before is the review service as the
                \* last run found it
    tasks,      \* the ensure_pr tasks of the run, one per loaded item:
                \* [branch, enabled, base, pc, seen, title, k, links,
                \* body_prefix, log]; body_prefix is the text ensure_pr
                \* composed, log holds the commands the task has issued
    created,    \* the branches whose pull request a create of this program
                \* opened, with no change by others since
    git,        \* the repository: [local, remote, tracking]; local holds the
                \* branches that exist locally, remote the branches b whose
                \* ref origin/b exists, tracking the upstream each local
                \* branch tracks
    eb,         \* the ensure_branches runs: [status, runs, outside, items, i,
                \* step, log]; log holds the commands the run has issued:
                \* [op, item, branch, arg, ok]
    sub         \* the submit command: [status, runs, answer, items, i, log];
                \* answer is what the user typed at the prompt, log holds
                \* the gh pr ready commands issued: [item, branch, ok]

stackVars == <<stack, last, loaded>>

rebaseVars == <<rb, vcsLog>>

bodyVars == <<remoteBody, edited>>

prVars == <<pr, sync, tasks, created>>

branchVars == <<git, eb>>

submitVars == <<sub>>

vars == <<stack, last, loaded, rb, vcsLog, remoteBody, edited,
          pr, sync, tasks, created, git, eb, sub>>

\* ------------------------------------------------------------ data model

\* get_default_branch_name()
DefaultBranch == <<"default", 0>>

\* f"prstack-{self.name}-{n}"
BranchName(n) == <<"prstack", n>>

\* f"{n}) {subject}"
TitleOf(n, subject) == <<n, subject>>

\* StackItem.to_dict: the five persisted fields; prev and upstream are dropped
to_dict(item) ==
    [subject |-> item.subject, branch |-> item.branch, title |-> item.title,
     initial_sha |-> item.initial_sha, enabled |-> item.enabled]

\* StackItem(subject, branch, title, initial_sha, enabled) with prev=None,
\* upstream=None.  prev is modelled as the index of the previous item in the
\* list load returns (0 for None).
StackItem(subject, branch, title, initial_sha, enabled) ==
    [subject |-> subject, branch |-> branch, title |-> title,
     initial_sha |-> initial_sha, enabled |-> enabled,
     prev |-> 0, upstream |-> <<"none", 0>>]

\* Stack.generate_stack_items over n commits, followed by to_dict
generate_stack_items(n) ==
    [i \in 1..n |->
        to_dict(StackItem(CommitSubject(i), BranchName(i),
                          TitleOf(i, CommitSubject(i)), i, TRUE))]

\* a mutant of Load: the include_disabled flag is ignored by the filter
LoadKeepsAll(dicts, include_disabled) ==
    LET items == dicts
    IN  [i \in 1..Len(items) |->
            [subject |-> items[i].subject, branch |-> items[i].branch,
             title |-> items[i].title, initial_sha |-> items[i].initial_sha,
             enabled |-> items[i].enabled,
             prev |-> i - 1,
             upstream |-> IF i = 1 \/ ~items[i - 1].enabled
                          THEN DefaultBranch ELSE items[i - 1].branch]]

\* Stack.load(include_disabled) applied to the persisted list dicts
Load(dicts, include_disabled) ==
    LET items == SelectSeq(dicts, LAMBDA d : d.enabled \/ include_disabled)
    IN  [i \in 1..Len(items) |->
            [subject |-> items[i].subject, branch |-> items[i].branch,
             title |-> items[i].title, initial_sha |-> items[i].initial_sha,
             enabled |-> items[i].enabled,
             prev |-> i - 1,
             upstream |-> IF i = 1 \/ ~items[i - 1].enabled
                          THEN DefaultBranch ELSE items[i - 1].branch]]

\* Stack.store: every item's to_dict, written wholesale
Store(items) == [i \in 1..Len(items) |-> to_dict(items[i])]

\* Python's items[num - 1]: the 1-based index addressed, 0 for IndexError.
\* A negative index counts from the end of the list.
PyIndex(len, num) ==
    LET k == num - 1
    IN  IF k >= 0 /\ k < len THEN k + 1
        ELSE IF k < 0 /\ k >= -len THEN len + k + 1
        ELSE 0

\* a mutant of SetEnabled: the flag is toggled instead of set
ToggleEnabled(items, idx, value) ==
    [items EXCEPT ![idx].enabled = ~items[idx].enabled]

\* items[num - 1].enabled = value
SetEnabled(items, idx, value) ==
    [items EXCEPT ![idx].enabled = value]

\* ---------------------------------------------------------------- commands

\* generate does not load
NoLoad == [incl |-> FALSE, items |-> <<>>]

\* Stack.extend(title) on the persisted list dicts: what it leaves persisted,
\* and whether it raised (items[-1] raises IndexError on an empty list)
ExtendResult(dicts, title) ==
    LET items == Load(dicts, FALSE)
        num   == Len(items) + 1
    IN  IF Len(items) = 0
        THEN [raised |-> TRUE, stack |-> dicts]
        ELSE LET prev == items[Len(items)]
                 new  == StackItem(title, BranchName(Len(items) + 1),
                                   TitleOf(num, title), prev.initial_sha, TRUE)
             IN  [raised |-> FALSE, stack |-> Store(Append(items, new))]

\* a mutant of SetEnabledResult: the items are loaded as extend loads them,
\* without the disabled ones
SetEnabledResultOfEnabled(dicts, num, value) ==
    LET items == Load(dicts, FALSE)
        idx   == PyIndex(Len(items), num)
    IN  IF idx = 0
        THEN [raised |-> TRUE, stack |-> dicts]
        ELSE [raised |-> FALSE, stack |-> Store(SetEnabled(items, idx, value))]

\* Stack.disable(num) / Stack.enable(num) on the persisted list dicts;
\* items[num - 1] raises IndexError before anything is stored
SetEnabledResult(dicts, num, value) ==
    LET items == Load(dicts, TRUE)
        idx   == PyIndex(Len(items), num)
    IN  IF idx = 0
        THEN [raised |-> TRUE, stack |-> dicts]
        ELSE [raised |-> FALSE, stack |-> Store(SetEnabled(items, idx, value))]

\* the record of a command in last
Ran(op, num, raised) ==
    [op |-> op, num |-> num, raised |-> raised,
     rep |-> (last.op = op /\ last.num = num)]

\* the state after `generate` over the n commits of base..HEAD
InitStackOf(n) ==
    /\ stack = generate_stack_items(n)
    /\ last = [op |-> "generate", num |-> 0, raised |-> FALSE, rep |-> FALSE]
    /\ loaded = NoLoad

InitStack == \E n \in 0..MaxCommits : InitStackOf(n)

\* no rebase_all has run
RebaseIdle ==
    [status |-> "idle", start |-> 0, items |-> <<>>, i |-> 0, step |-> "none"]

InitRebase ==
    /\ rb = RebaseIdle
    /\ vcsLog = <<>>

\* no pull request is being edited
NoEdit == [status |-> "none", prefix |-> <<>>, old |-> <<>>, new |-> <<>>]

NoBody ==
    /\ remoteBody = <<>>
    /\ edited = NoEdit

\* the branch names a stack of at most MaxItems items can hold
Branches == {BranchName(n) : n \in 1..MaxItems}

\* no base branch: gh pr edit without --base, or no pull request
NoBase == <<"none", 0>>

\* the head of a body this program did not write
NoPrefix == [k |-> -1, links |-> <<>>]

\* the entry of the review service for a branch that has no pull request
NoPr ==
    [state |-> "NotFound", marker |-> FALSE, base |-> NoBase,
     title |-> <<0, <<"none", 0>>>>, body |-> NoPrefix]

\* no pull request exists and ensure_prs has not run
InitPr ==
    /\ pr = [b \in Branches |-> NoPr]
    /\ sync = [status |-> "idle", runs |-> 0, outside |-> 0,
               before |-> [b \in Branches |-> NoPr]]
    /\ tasks = <<>>
    /\ created = {}

\* the tracking of a branch that tracks nothing
NoTracking == <<"none", 0>>

\* no ensure_branches has run
EbIdle ==
    [status |-> "idle", runs |-> 0, outside |-> 0, items |-> <<>>, i |-> 0,
     step |-> "none", log |-> <<>>]

\* a repository with none of the branches of the stack, here or on origin
InitGit ==
    /\ git = [local |-> {}, remote |-> {},
              tracking |-> [b \in Branches |-> NoTracking]]
    /\ eb = EbIdle

\* no submit has run
InitSubmit ==
    sub = [status |-> "idle", runs |-> 0, answer |-> "none", items |-> <<>>,
           i |-> 0, log |-> <<>>]

Init ==
    /\ InitStack
    /\ InitRebase
    /\ NoBody
    /\ InitPr
    /\ InitGit
    /\ InitSubmit

\* Stack.extend(title), capped at MaxItems items; the command `extend` goes
\* on to ensure_branches, which ExtendThenEnsure models
Extend(title) ==
    LET r == ExtendResult(stack, title)
    IN  /\ Len(Load(stack, FALSE)) + 1 <= MaxItems
        /\ loaded' = [incl |-> FALSE, items |-> Load(stack, FALSE)]
        /\ stack' = r.stack
        /\ last' = Ran("extend", 0, r.raised)

\* the command `disable <num>`
Disable(num) ==
    LET r == SetEnabledResult(stack, num, FALSE)
    IN  /\ loaded' = [incl |-> TRUE, items |-> Load(stack, TRUE)]
        /\ stack' = r.stack
        /\ last' = Ran("disable", num, r.raised)

\* the command `enable <num>`
Enable(num) ==
    LET r == SetEnabledResult(stack, num, TRUE)
    IN  /\ loaded' = [incl |-> TRUE, items |-> Load(stack, TRUE)]
        /\ stack' = r.stack
        /\ last' = Ran("enable", num, r.raised)

\* the position arguments tried: every position of the list, 0, negative
\* positions and positions past the end
Nums == (-MaxItems)..(MaxItems + 1)

ExtendCmd == \E title \in Titles : Extend(title)

DisableCmd == \E num \in Nums : Disable(num)

EnableCmd == \E num \in Nums : Enable(num)

Next ==
    \/ ExtendCmd /\ UNCHANGED <<rebaseVars, bodyVars, prVars, branchVars, submitVars>>
    \/ DisableCmd /\ UNCHANGED <<rebaseVars, bodyVars, prVars, branchVars, submitVars>>
    \/ EnableCmd /\ UNCHANGED <<rebaseVars, bodyVars, prVars, branchVars, submitVars>>

Spec == Init /\ [][Next]_vars

\* --------------------------------------------------------------- rebase_all

\* the commands rebase_all runs for one item, in the order of its loop body;
\* push is the send helper run by subprocess.run(..., check=True)
Steps == <<"checkout", "fetch", "rebase", "push">>

\* what the command of a step is given: the item's branch for git checkout,
\* its upstream for git fetch origin, nothing for git rebase and the helper
StepArg(item, step) ==
    CASE step = "checkout" -> item.branch
      [] step = "fetch"    -> item.upstream
      [] OTHER             -> <<"none", 0>>

\* the first index at or after from that the loop does not skip:
\* num = i + 1 (1-based index in the loaded list) and `if num < start: continue`;
\* 0 when the loop ends without reaching one
NextSwept(items, from, start) ==
    LET i == IF from >= start THEN from ELSE start
    IN  IF i <= Len(items) THEN i ELSE 0

\* Stack.rebase_all(start) up to the first command it runs
RebaseBegin(dicts, start) ==
    LET items == Load(dicts, FALSE)
        first == NextSwept(items, 1, start)
    IN  IF first = 0
        THEN [status |-> "done", start |-> start, items |-> items,
              i |-> 0, step |-> "none"]
        ELSE [status |-> "running", start |-> start, items |-> items,
              i |-> first, step |-> "checkout"]

\* a mutant of AfterStep: the exit status of a command is not checked, and the
\* loop goes on after a failure
AfterStepUnchecked(r, ok) ==
    IF r.step # "push"
    THEN [r EXCEPT !.step = Steps[(CHOOSE k \in 1..3 : Steps[k] = r.step) + 1]]
    ELSE LET n == NextSwept(r.items, r.i + 1, r.start)
         IN  IF n = 0
             THEN [r EXCEPT !.status = "done", !.i = 0, !.step = "none"]
             ELSE [r EXCEPT !.i = n, !.step = "checkout"]

\* the run after the command of r.step has ended: cmd (check_output) and
\* subprocess.run(check=True) raise CalledProcessError on a non-zero exit,
\* which nothing catches, and otherwise the loop body goes on
AfterStep(r, ok) ==
    IF ~ok
    THEN [r EXCEPT !.status = "failed"]
    ELSE IF r.step # "push"
    THEN [r EXCEPT !.step = Steps[(CHOOSE k \in 1..3 : Steps[k] = r.step) + 1]]
    ELSE LET n == NextSwept(r.items, r.i + 1, r.start)
         IN  IF n = 0
             THEN [r EXCEPT !.status = "done", !.i = 0, !.step = "none"]
             ELSE [r EXCEPT !.i = n, !.step = "checkout"]

\* the start arguments tried (the command's default is 0)
Starts == 0..(MaxItems + 1)

\* the command `rebase-all <start>` begins: load, skip the items before start
RebaseAllStart ==
    /\ rb.status # "running"
    /\ \E start \in Starts : rb' = RebaseBegin(stack, start)
    /\ vcsLog' = <<>>
    /\ UNCHANGED <<stackVars, bodyVars, prVars, branchVars, submitVars>>

\* the command of the current step runs, and exits with status 0 or not
RebaseStep ==
    /\ rb.status = "running"
    /\ \E ok \in BOOLEAN :
          /\ vcsLog' = Append(vcsLog,
                 [op |-> rb.step, item |-> rb.i,
                  arg |-> StepArg(rb.items[rb.i], rb.step), ok |-> ok])
          /\ rb' = AfterStep(rb, ok)
    /\ UNCHANGED <<stackVars, bodyVars, prVars, branchVars, submitVars>>

\* Stack.extend, Stack.enable and Stack.disable run between rebase_all runs,
\* each as a process of its own; what they load and raise is not recorded here
StackChange ==
    /\ rb.status # "running"
    /\ \/ \E title \in Titles :
            /\ Len(Load(stack, FALSE)) + 1 <= MaxItems
            /\ stack' = ExtendResult(stack, title).stack
       \/ \E num \in Nums, value \in BOOLEAN :
            stack' = SetEnabledResult(stack, num, value).stack
    /\ rb' = RebaseIdle
    /\ vcsLog' = <<>>
    /\ UNCHANGED <<last, loaded, bodyVars, prVars, branchVars, submitVars>>

NextRebase ==
    \/ StackChange
    \/ RebaseAllStart
    \/ RebaseStep

SpecRebase == Init /\ [][NextRebase]_vars

\* ------------------------------------------------------- PullRequest.edit

\* Text is a sequence of characters (strings of length 1); a longer string in
\* it is a piece of text that holds no part of the marker.

\* the literal "## Description"
Marker == <<"#", "#", " ", "D", "e", "s", "c", "r", "i", "p", "t", "i", "o", "n">>

\* the first index at or after from where sep occurs in s, 0 when it does not
\* (str.find)
Find(s, sep, from) ==
    LET hits == {i \in from..(Len(s) - Len(sep) + 1) :
                    SubSeq(s, i, i + Len(sep) - 1) = sep}
    IN  IF hits = {} THEN 0 ELSE CHOOSE i \in hits : \A j \in hits : i <= j

\* str.split(sep): the pieces of s between the occurrences of sep, found
\* left to right and never overlapping; <<s>> when sep does not occur
RECURSIVE Split(_, _)
Split(s, sep) ==
    LET i == Find(s, sep, 1)
    IN  IF i = 0 THEN <<s>>
        ELSE <<SubSeq(s, 1, i - 1)>>
                 \o Split(SubSeq(s, i + Len(sep), Len(s)), sep)

\* a mutant of get_pr_links: the turtle goes to the line whose 1-based
\* number is marker
get_pr_links_from_one(marker, links) ==
    [i \in 1..Len(links) |->
        "- " \o (IF i = marker THEN "turtle" ELSE "egg") \o " "
             \o links[i] \o "\n"]

\* get_pr_links(marker): one line per link, the marker-th (0-based) with the
\* turtle, the others with the egg
get_pr_links(marker, links) ==
    [i \in 1..Len(links) |->
        "- " \o (IF i - 1 = marker THEN "turtle" ELSE "egg") \o " "
             \o links[i] \o "\n"]

\* "".join(get_pr_body(marker)): "## Links\n", the link lines, "\n## Description"
get_pr_body(marker, links) ==
    <<"## Links\n">> \o get_pr_links(marker, links) \o <<"\n">> \o Marker

\* a mutant of NewBody: the last piece is taken (split(...)[-1] for
\* split(...)[1]), which is the whole body when the marker does not occur
NewBodyLastPart(body_prefix, current_body) ==
    LET parts == Split(current_body, Marker)
    IN  [raised |-> FALSE, body |-> body_prefix \o parts[Len(parts)]]

\* new_body = body_prefix + current_body.split("## Description")[1];
\* [1] raises IndexError when the marker does not occur
NewBody(body_prefix, current_body) ==
    LET parts == Split(current_body, Marker)
    IN  IF Len(parts) < 2 THEN [raised |-> TRUE, body |-> <<>>]
        ELSE [raised |-> FALSE, body |-> body_prefix \o parts[2]]

\* the pieces remote bodies are made of
BodyChunks == {Marker, <<"#">>, <<"x">>, <<"## Links\n">>}

\* remote bodies are made of at most MaxChunks pieces
MaxChunks == 3

RECURSIVE Flatten(_)
Flatten(chunks) ==
    IF chunks = <<>> THEN <<>> ELSE Head(chunks) \o Flatten(Tail(chunks))

Bodies ==
    {Flatten(cs) : cs \in UNION {[1..n -> BodyChunks] : n \in 0..MaxChunks}}

\* what gh pr view reports of the pull requests of the stack
Links == {"(none)", "url"}

\* the prefixes ensure_pr composes for the two items of a stack
Prefixes == {get_pr_body(k, ls) : k \in 0..1, ls \in [1..2 -> Links]}

\* a pull request of a stack of two items, with some body on the review
\* service
InitBody ==
    /\ InitStackOf(2)
    /\ InitRebase
    /\ remoteBody \in Bodies
    /\ edited = NoEdit
    /\ InitPr
    /\ InitGit
    /\ InitSubmit

\* PullRequest.edit(base, body_prefix): gh pr view reads the body, the new
\* body is composed (or IndexError), gh pr edit writes it (or fails)
PrEdit ==
    \E body_prefix \in Prefixes, ok \in BOOLEAN :
        LET r == NewBody(body_prefix, remoteBody)
        IN  /\ edited' = [status |-> IF r.raised THEN "IndexError"
                                     ELSE IF ok THEN "edited" ELSE "failed",
                          prefix |-> body_prefix, old |-> remoteBody,
                          new |-> r.body]
            /\ remoteBody' = IF ~r.raised /\ ok THEN r.body ELSE remoteBody
            /\ UNCHANGED <<stackVars, rebaseVars, prVars, branchVars, submitVars>>

NextBody ==
    \/ PrEdit

SpecBody == InitBody /\ [][NextBody]_vars

\* --------------------------------------------------------------- ensure_prs

\* ensure_prs runs at most MaxRuns times
MaxRuns == 2
\* others change the state of a pull request at most MaxOutside times
MaxOutside == 1

\* PullRequest.get_state: what gh pr view --json state reports, "CLOSED" when
\* the command fails because there is no pull request
get_state(view) == IF view = "NotFound" THEN "CLOSED" ELSE view

\* a mutant of EnsurePath: the disabled flag is not looked at
EnsurePathAnyItem(state, disabled) ==
    IF state = "CLOSED" THEN "create" ELSE "edit"

\* PullRequest.ensure: the branch of the if it takes
EnsurePath(state, disabled) ==
    IF state = "CLOSED" /\ ~disabled THEN "create" ELSE "edit"

\* get_pr_link(ref) on the review service p: the url of the pull request of
\* the branch, "(none)" when gh pr view fails
get_pr_link(p, ref) ==
    IF p[ref].state = "NotFound" THEN <<"(none)", 0>> ELSE <<"url", ref[2]>>

\* the text of a link: "(none)", or the url of the pull request of the
\* branch numbered n
LinkText(link) ==
    IF link[1] = "(none)" THEN "(none)"
    ELSE "https://pr/"
             \o <<"1", "2", "3", "4", "5", "6", "7", "8", "9">>[link[2]]

\* a command a task issues; base is what --base is given, NoBase without it
Issued(op, base) == [op |-> op, base |-> base]

\* the base PullRequest.ensure hands to edit: None for a disabled item
EditBase(task) == IF task.enabled THEN task.base ELSE NoBase

\* the pull request gh pr create opens for task: a draft with the title, the
\* base and the body (the prefix, which ends in the marker) it is given
CreatedPr(task) ==
    [state |-> "DRAFT", marker |-> TRUE, base |-> task.base,
     title |-> task.title, body |-> [k |-> task.k, links |-> task.links]]

\* the pull request old after the gh pr edit of task: the body gets the new
\* prefix, and the base changes when --base is given
EditedPr(old, task) ==
    [old EXCEPT !.base = IF EditBase(task) = NoBase THEN @ ELSE EditBase(task),
                !.body = [k |-> task.k, links |-> task.links]]

\* the tasks asyncio.gather starts, one per item of load(include_disabled=True),
\* each run up to its first suspension: the body prefix is composed and
\* gh pr view --json state is started.  The links of the prefix are looked up
\* by the first task, before any task has created a pull request, and come
\* from the cache of get_pr_link for the tasks after it.
StartedTasks(dicts) ==
    LET items == Load(dicts, TRUE)
        links == [j \in 1..Len(items) |-> get_pr_link(pr, items[j].branch)]
    IN  [i \in 1..Len(items) |->
            [branch |-> items[i].branch, enabled |-> items[i].enabled,
             base |-> items[i].upstream, pc |-> "get_state", seen |-> "none",
             title |-> items[i].title, k |-> i - 1, links |-> links,
             body_prefix |->
                 get_pr_body(i - 1,
                             [j \in 1..Len(links) |-> LinkText(links[j])]),
             log |-> <<Issued("view_state", NoBase)>>]]

\* the exception of task t leaves gather: asyncio.run ends and cancels the
\* tasks still pending
Cancelled(ts, t) ==
    [i \in 1..Len(ts) |->
        IF i = t THEN [ts[i] EXCEPT !.pc = "failed"]
        ELSE IF ts[i].pc \in {"get_state", "create", "edit"}
        THEN [ts[i] EXCEPT !.pc = "cancelled"]
        ELSE ts[i]]

\* the review service once the commands in flight of the cancelled tasks in
\* lands have reached it all the same (the last of them, when several are for
\* one branch)
Landed(ts, lands) ==
    [b \in Branches |->
        LET on == {i \in lands : ts[i].branch = b}
        IN  IF on = {} THEN pr[b]
            ELSE LET i == CHOOSE j \in on : \A l \in on : l <= j
                 IN  IF ts[i].pc = "create" THEN CreatedPr(ts[i])
                     ELSE EditedPr(pr[b], ts[i])]

\* task t raises
Fail(t) ==
    \E lands \in SUBSET {i \in 1..Len(tasks) :
                            i # t /\ tasks[i].pc \in {"create", "edit"}} :
        /\ tasks' = Cancelled(tasks, t)
        /\ pr' = Landed(tasks, lands)
        /\ created' = created \cup
               {tasks[i].branch : i \in {j \in lands : tasks[j].pc = "create"}}
        /\ sync' = [sync EXCEPT !.status = "failed"]

\* task t ends; gather returns when every task has
Finish(t, pc) ==
    /\ tasks' = [tasks EXCEPT ![t].pc = pc]
    /\ sync' = [sync EXCEPT !.status =
                   IF \A i \in 1..Len(tasks) : i = t \/ tasks[i].pc = "done"
                   THEN "done" ELSE "running"]

\* Stack.ensure_prs begins
EnsurePrsStart ==
    /\ sync.status # "running"
    /\ sync.runs < MaxRuns
    /\ tasks' = StartedTasks(stack)
    /\ sync' = [sync EXCEPT !.runs = sync.runs + 1,
                            !.status = IF Len(stack) = 0 THEN "done"
                                       ELSE "running",
                            !.before = pr]
    /\ UNCHANGED <<pr, created, stackVars, rebaseVars, bodyVars, branchVars,
                   submitVars>>

\* gh pr view --json state of task t ends; PullRequest.ensure goes on to
\* hack_skip_ci and gh pr create, or to PullRequest.edit up to gh pr edit
TaskGetState(t) ==
    /\ sync.status = "running"
    /\ tasks[t].pc = "get_state"
    /\ LET b    == tasks[t].branch
           path == EnsurePath(get_state(pr[b].state), ~tasks[t].enabled)
           seen == [tasks EXCEPT ![t].seen = pr[b].state]
           skip == [seen EXCEPT ![t].log =
                       Append(@, Issued("hack_skip_ci", NoBase))]
           body == [seen EXCEPT ![t].log =
                       Append(@, Issued("view_body", NoBase))]
       IN  IF path = "create"
           THEN \E ok \in BOOLEAN :
                   IF ok
                   THEN /\ tasks' = [skip EXCEPT ![t].pc = "create",
                               ![t].log = Append(@,
                                   Issued("create", tasks[t].base))]
                        /\ UNCHANGED <<pr, sync, created>>
                   ELSE \* a git command of hack_skip_ci fails
                        /\ tasks' = Cancelled(skip, t)
                        /\ sync' = [sync EXCEPT !.status = "failed"]
                        /\ UNCHANGED <<pr, created>>
           ELSE IF pr[b].state = "NotFound" \/ ~pr[b].marker
           THEN \* gh pr view --json body fails, or split(...)[1] raises
                /\ tasks' = Cancelled(body, t)
                /\ sync' = [sync EXCEPT !.status = "failed"]
                /\ UNCHANGED <<pr, created>>
           ELSE /\ tasks' = [body EXCEPT ![t].pc = "edit",
                       ![t].log = Append(@,
                           Issued("edit", EditBase(tasks[t])))]
                /\ UNCHANGED <<pr, sync, created>>
    /\ UNCHANGED <<stackVars, rebaseVars, bodyVars, branchVars, submitVars>>

\* gh pr create of task t ends
TaskCreateEnds(t) ==
    /\ sync.status = "running"
    /\ tasks[t].pc = "create"
    /\ \/ /\ pr' = [pr EXCEPT ![tasks[t].branch] = CreatedPr(tasks[t])]
          /\ created' = created \cup {tasks[t].branch}
          /\ Finish(t, "done")
       \/ Fail(t)
    /\ UNCHANGED <<stackVars, rebaseVars, bodyVars, branchVars, submitVars>>

\* gh pr edit of task t ends
TaskEditEnds(t) ==
    /\ sync.status = "running"
    /\ tasks[t].pc = "edit"
    /\ \/ /\ pr' = [pr EXCEPT ![tasks[t].branch] = EditedPr(@, tasks[t])]
          /\ created' = created
          /\ Finish(t, "done")
       \/ Fail(t)
    /\ UNCHANGED <<stackVars, rebaseVars, bodyVars, branchVars, submitVars>>

\* what others can make of a pull request in state s: mark it ready, merge it,
\* close it, or open one of their own
OutsideStates(s) ==
    CASE s = "NotFound" -> {"OPEN"}
      [] s = "DRAFT"    -> {"OPEN", "MERGED", "CLOSED"}
      [] s = "OPEN"     -> {"MERGED", "CLOSED"}
      [] OTHER          -> {}

\* the pull request others open for a branch: against the default branch,
\* with a title and a body of their own
OthersPr(s) ==
    [state |-> s, marker |-> FALSE, base |-> DefaultBranch,
     title |-> <<0, <<"other", 0>>>>, body |-> NoPrefix]

\* someone changes the pull request of branch b between two runs
Outside(b) ==
    /\ sync.status # "running"
    /\ sync.outside < MaxOutside
    /\ \E s \in OutsideStates(pr[b].state) :
          pr' = [pr EXCEPT ![b] =
                    IF pr[b].state = "NotFound" THEN OthersPr(s)
                    ELSE [pr[b] EXCEPT !.state = s]]
    /\ created' = created \ {b}
    /\ sync' = [sync EXCEPT !.outside = sync.outside + 1]
    /\ UNCHANGED <<tasks, stackVars, rebaseVars, bodyVars, branchVars,
                   submitVars>>

\* Stack.extend, Stack.enable and Stack.disable run before the first
\* ensure_prs run: the stack is made, then synced
StackChangePr ==
    /\ sync.runs = 0
    /\ \/ \E title \in Titles :
            /\ Len(Load(stack, FALSE)) + 1 <= MaxItems
            /\ stack' = ExtendResult(stack, title).stack
       \/ \E num \in Nums, value \in BOOLEAN :
            stack' = SetEnabledResult(stack, num, value).stack
    /\ UNCHANGED <<last, loaded, rebaseVars, bodyVars, prVars, branchVars,
                   submitVars>>

NextPr ==
    \/ StackChangePr
    \/ EnsurePrsStart
    \/ \E t \in 1..Len(tasks) : TaskGetState(t)
    \/ \E t \in 1..Len(tasks) : TaskCreateEnds(t)
    \/ \E t \in 1..Len(tasks) : TaskEditEnds(t)
    \/ \E b \in Branches : Outside(b)

SpecPr == Init /\ [][NextPr]_vars

\* ensure_pr run to its end for the tasks from i on, one after the other, on
\* the review service r.pr, every command succeeding that can: each reads the
\* state the tasks before it left; ok is FALSE once an edit found no pull
\* request or no marker
RECURSIVE SeqEnsure(_, _, _)
SeqEnsure(r, ts, i) ==
    IF i > Len(ts) \/ ~r.ok THEN r
    ELSE LET b    == ts[i].branch
             path == EnsurePath(get_state(r.pr[b].state), ~ts[i].enabled)
         IN  IF path = "create"
             THEN SeqEnsure([r EXCEPT !.pr[b] = CreatedPr(ts[i])], ts, i + 1)
             ELSE IF r.pr[b].state = "NotFound" \/ ~r.pr[b].marker
             THEN [r EXCEPT !.ok = FALSE]
             ELSE SeqEnsure([r EXCEPT !.pr[b] = EditedPr(@, ts[i])], ts, i + 1)

\* ------------------------------------------------------- PullRequest.ensure

\* the pull requests ensure can find for a branch: none, or one in any state,
\* with a body that holds the marker or not, against some base of its own
FoundPrs ==
    {NoPr} \cup
    {[state |-> st, marker |-> m, base |-> <<"other", 0>>,
      title |-> <<0, <<"other", 0>>>>, body |-> NoPrefix] :
        st \in {"DRAFT", "OPEN", "MERGED", "CLOSED"}, m \in BOOLEAN}

\* a stack of two items, each enabled or disabled, and a review service that
\* holds any pull request for their branches
InitEnsure ==
    /\ \E f \in [1..2 -> BOOLEAN] :
          stack = [i \in 1..2 |->
                      [generate_stack_items(2)[i] EXCEPT !.enabled = f[i]]]
    /\ last = [op |-> "generate", num |-> 0, raised |-> FALSE, rep |-> FALSE]
    /\ loaded = NoLoad
    /\ InitRebase
    /\ NoBody
    /\ \E q \in [1..2 -> FoundPrs] :
          pr = [b \in Branches |-> IF b[2] <= 2 THEN q[b[2]] ELSE NoPr]
    /\ sync = [status |-> "idle", runs |-> 0, outside |-> 0,
               before |-> [b \in Branches |-> NoPr]]
    /\ tasks = <<>>
    /\ created = {}
    /\ InitGit
    /\ InitSubmit

NextEnsure ==
    \/ EnsurePrsStart
    \/ \E t \in 1..Len(tasks) : TaskGetState(t)
    \/ \E t \in 1..Len(tasks) : TaskCreateEnds(t)
    \/ \E t \in 1..Len(tasks) : TaskEditEnds(t)

SpecEnsure == InitEnsure /\ [][NextEnsure]_vars

\* ---------------------------------------------------------- ensure_branches

\* branch_exists(ref) for the refs ensure_branches asks about: the branch b
\* ("local") or origin/b ("origin"); origin/<default branch> exists, the
\* default branch being what origin/HEAD points to
branch_exists(g, where, b) ==
    IF where = "origin" THEN b = DefaultBranch \/ b \in g.remote
    ELSE b \in g.local

\* the first command the loop body runs for item:
\* `if not branch_exists(branch)` guards git branch
FirstStep(g, item) ==
    IF ~branch_exists(g, "local", item.branch) THEN "branch" ELSE "set_upstream"

\* what the command of a step is given besides the branch: initial_sha for
\* git branch, the upstream for git branch -u, nothing for git push
EbArg(item, step) ==
    CASE step = "branch"       -> <<"sha", item.initial_sha>>
      [] step = "set_upstream" -> item.upstream
      [] OTHER                 -> <<"none", 0>>

\* the repository after the command of step has run for item with exit
\* status 0
GitAfter(g, item, step) ==
    CASE step = "branch" ->
           [g EXCEPT !.local = g.local \cup {item.branch},
                     !.tracking[item.branch] = NoTracking]
      [] step = "set_upstream" ->
           [g EXCEPT !.tracking[item.branch] = item.upstream]
      [] OTHER ->
           [g EXCEPT !.remote = g.remote \cup {item.branch}]

\* the loop goes on to the item after e.i, or ends
EbNextItem(e, g) ==
    IF e.i + 1 <= Len(e.items)
    THEN [e EXCEPT !.i = e.i + 1, !.step = FirstStep(g, e.items[e.i + 1])]
    ELSE [e EXCEPT !.status = "done", !.i = 0, !.step = "none"]

\* the run after the command of e.step has ended, g being the repository it
\* left: cmd raises CalledProcessError on a non-zero exit, which nothing
\* catches; `if not branch_exists(f"origin/{branch}")` guards git push
EbAfterStep(e, g, ok) ==
    IF ~ok THEN [e EXCEPT !.status = "failed"]
    ELSE CASE e.step = "branch" -> [e EXCEPT !.step = "set_upstream"]
           [] e.step = "set_upstream" ->
                IF ~branch_exists(g, "origin", e.items[e.i].branch)
                THEN [e EXCEPT !.step = "push"]
                ELSE EbNextItem(e, g)
           [] OTHER -> EbNextItem(e, g)

\* Stack.ensure_branches over the persisted list dicts, up to its first
\* command
EnsureBranchesBegin(dicts, g) ==
    LET items == Load(dicts, FALSE)
        e     == [eb EXCEPT !.runs = eb.runs + 1, !.items = items,
                            !.log = <<>>]
    IN  IF Len(items) = 0
        THEN [e EXCEPT !.status = "done", !.i = 0, !.step = "none"]
        ELSE [e EXCEPT !.status = "running", !.i = 1,
                       !.step = FirstStep(g, items[1])]

\* Stack.ensure_branches begins (the first half of the command `sync`)
EnsureBranchesStart ==
    /\ eb.status # "running"
    /\ eb.runs < MaxRuns
    /\ eb' = EnsureBranchesBegin(stack, git)
    /\ UNCHANGED <<git, stackVars, rebaseVars, bodyVars, prVars, submitVars>>

\* the command `extend <title>`: Stack.extend, then Stack.ensure_branches
\* unless extend raised
ExtendThenEnsure ==
    /\ eb.status # "running"
    /\ eb.runs < MaxRuns
    /\ \E title \in Titles :
          LET r == ExtendResult(stack, title)
          IN  /\ Len(Load(stack, FALSE)) + 1 <= MaxItems
              /\ stack' = r.stack
              /\ eb' = IF r.raised THEN eb
                       ELSE EnsureBranchesBegin(r.stack, git)
    /\ UNCHANGED <<git, last, loaded, rebaseVars, bodyVars, prVars,
                   submitVars>>

\* the command of the current step runs, and exits with status 0 or not
EnsureBranchesStep ==
    /\ eb.status = "running"
    /\ \E ok \in BOOLEAN :
          LET item == eb.items[eb.i]
              g    == IF ok THEN GitAfter(git, item, eb.step) ELSE git
              e    == [eb EXCEPT !.log = Append(eb.log,
                          [op |-> eb.step, item |-> eb.i,
                           branch |-> item.branch,
                           arg |-> EbArg(item, eb.step), ok |-> ok])]
          IN  /\ git' = g
              /\ eb' = EbAfterStep(e, g, ok)
    /\ UNCHANGED <<stackVars, rebaseVars, bodyVars, prVars, submitVars>>

\* Stack.enable and Stack.disable run between ensure_branches runs
StackChangeBranches ==
    /\ eb.status # "running"
    /\ \E num \in Nums, value \in BOOLEAN :
          stack' = SetEnabledResult(stack, num, value).stack
    /\ eb' = [eb EXCEPT !.status = "idle", !.items = <<>>, !.log = <<>>]
    /\ UNCHANGED <<git, last, loaded, rebaseVars, bodyVars, prVars,
                   submitVars>>

\* between two runs the user deletes a local branch of the stack
\* (git branch -D), or a branch of the stack goes from origin
OutsideGit(b) ==
    /\ eb.status # "running"
    /\ eb.outside < MaxOutside
    /\ \/ /\ b \in git.local
          /\ git' = [git EXCEPT !.local = git.local \ {b},
                                !.tracking[b] = NoTracking]
       \/ /\ b \in git.remote
          /\ git' = [git EXCEPT !.remote = git.remote \ {b}]
    /\ eb' = [eb EXCEPT !.status = "idle", !.items = <<>>, !.log = <<>>,
                        !.outside = eb.outside + 1]
    /\ UNCHANGED <<stackVars, rebaseVars, bodyVars, prVars, submitVars>>

NextBranches ==
    \/ StackChangeBranches
    \/ ExtendThenEnsure
    \/ EnsureBranchesStart
    \/ EnsureBranchesStep
    \/ \E b \in Branches : OutsideGit(b)

SpecBranches == Init /\ [][NextBranches]_vars

\* ---------------------------------------------------------------------- sync

\* the command `sync` begins: Stack.ensure_branches; no task of ensure_prs
\* exists yet in the new process
SyncStart ==
    /\ sync.status # "running"
    /\ eb.status # "running"
    /\ eb.runs < MaxRuns
    /\ eb' = EnsureBranchesBegin(stack, git)
    /\ sync' = [sync EXCEPT !.status = "idle"]
    /\ tasks' = <<>>
    /\ UNCHANGED <<pr, created, git, stackVars, rebaseVars, bodyVars,
                   submitVars>>

\* ensure_branches has returned: the command goes on to Stack.ensure_prs
SyncEnsurePrs ==
    /\ eb.status = "done"
    /\ sync.status = "idle"
    /\ EnsurePrsStart

\* Stack.extend, Stack.enable and Stack.disable run before a sync; what the
\* sync before did is then no longer looked at
StackChangeSync ==
    /\ eb.runs < MaxRuns
    /\ eb.status # "running"
    /\ sync.status # "running"
    /\ eb.status = "done" => sync.status # "idle"
    /\ \/ \E title \in Titles :
            /\ Len(Load(stack, FALSE)) + 1 <= MaxItems
            /\ stack' = ExtendResult(stack, title).stack
       \/ \E num \in Nums, value \in BOOLEAN :
            stack' = SetEnabledResult(stack, num, value).stack
    /\ eb' = [eb EXCEPT !.status = "idle", !.items = <<>>, !.i = 0,
                        !.step = "none", !.log = <<>>]
    /\ sync' = [sync EXCEPT !.status = "idle",
                            !.before = [b \in Branches |-> NoPr]]
    /\ tasks' = <<>>
    /\ UNCHANGED <<pr, created, git, last, loaded, rebaseVars, bodyVars,
                   submitVars>>

NextSync ==
    \/ StackChangeSync
    \/ SyncStart
    \/ EnsureBranchesStep
    \/ SyncEnsurePrs
    \/ \E t \in 1..Len(tasks) : TaskGetState(t)
    \/ \E t \in 1..Len(tasks) : TaskCreateEnds(t)
    \/ \E t \in 1..Len(tasks) : TaskEditEnds(t)

SpecSync == Init /\ [][NextSync]_vars

\* -------------------------------------------------------------------- submit

\* what the user types at "Are you sure you want to submit? [y/N] "
Answers == {"y", "Y", "n", "yes", ""}

\* a draft pull request an earlier sync left for a branch
DraftPr ==
    [state |-> "DRAFT", marker |-> TRUE, base |-> DefaultBranch,
     title |-> <<0, <<"draft", 0>>>>, body |-> NoPrefix]

\* a generated stack, and a review service where each branch has a draft pull
\* request or none
InitReview ==
    /\ InitStack
    /\ InitRebase
    /\ NoBody
    /\ pr \in [Branches -> {NoPr, DraftPr}]
    /\ sync = [status |-> "idle", runs |-> 0, outside |-> 0,
               before |-> [b \in Branches |-> NoPr]]
    /\ tasks = <<>>
    /\ created = {}
    /\ InitGit
    /\ InitSubmit

\* the command `submit` up to its first gh pr ready: exit(1) unless the
\* answer is "y", then Stack.submit over load(include_disabled=False)
SubmitBegin(dicts, answer) ==
    LET items == Load(dicts, FALSE)
        s     == [sub EXCEPT !.runs = sub.runs + 1, !.answer = answer,
                             !.items = items, !.log = <<>>]
    IN  IF answer # "y"
        THEN [s EXCEPT !.status = "exited", !.items = <<>>, !.i = 0]
        ELSE IF Len(items) = 0
        THEN [s EXCEPT !.status = "done", !.i = 0]
        ELSE [s EXCEPT !.status = "running", !.i = 1]

\* PullRequest.submit: gh pr ready makes a draft pull request ready for review
Ready(p) == IF p.state = "DRAFT" THEN [p EXCEPT !.state = "OPEN"] ELSE p

\* the user runs `submit` and answers the prompt
SubmitCmd ==
    /\ sub.status # "running"
    /\ sub.runs < MaxRuns
    /\ \E answer \in Answers : sub' = SubmitBegin(stack, answer)
    /\ UNCHANGED <<stackVars, rebaseVars, bodyVars, prVars, branchVars>>

\* gh pr ready of the current item runs; it fails when the branch has no pull
\* request, and may fail otherwise; cmd raises on a non-zero exit, which ends
\* the loop
SubmitStep ==
    /\ sub.status = "running"
    /\ LET b == sub.items[sub.i].branch
       IN  \E ok \in BOOLEAN :
              /\ ok => pr[b].state # "NotFound"
              /\ pr' = IF ok THEN [pr EXCEPT ![b] = Ready(@)] ELSE pr
              /\ sub' = [sub EXCEPT
                    !.log = Append(@, [item |-> sub.i, branch |-> b,
                                       ok |-> ok]),
                    !.status = IF ~ok THEN "failed"
                               ELSE IF sub.i = Len(sub.items) THEN "done"
                               ELSE "running",
                    !.i = IF ok /\ sub.i < Len(sub.items) THEN sub.i + 1
                          ELSE sub.i]
    /\ UNCHANGED <<sync, tasks, created, stackVars, rebaseVars, bodyVars,
                   branchVars>>

\* Stack.extend, Stack.enable and Stack.disable run between submit commands
StackChangeSubmit ==
    /\ sub.status # "running"
    /\ \/ \E title \in Titles :
            /\ Len(Load(stack, FALSE)) + 1 <= MaxItems
            /\ stack' = ExtendResult(stack, title).stack
       \/ \E num \in Nums, value \in BOOLEAN :
            stack' = SetEnabledResult(stack, num, value).stack
    /\ sub' = [sub EXCEPT !.status = "idle", !.answer = "none",
                          !.items = <<>>, !.i = 0, !.log = <<>>]
    /\ UNCHANGED <<last, loaded, rebaseVars, bodyVars, prVars, branchVars>>

NextSubmit ==
    \/ StackChangeSubmit
    \/ SubmitCmd
    \/ SubmitStep

SpecSubmit == InitReview /\ [][NextSubmit]_vars

\* ------------------------------------------------------- claims on the stack

\* the positions of the persisted list dicts that hold an enabled item
EnabledPositions(dicts) == {i \in 1..Len(dicts) : dicts[i].enabled}

\* the position in dicts of its k-th enabled item
EnabledPos(dicts, k) ==
    CHOOSE i \in EnabledPositions(dicts) :
        Cardinality({j \in EnabledPositions(dicts) : j <= i}) = k

\* C1: every enabled item a load returns has as upstreamBranch the branch of
\* the nearest enabled item before it in stack order, or the default branch
\* when no enabled item precedes it, for load(False) and for load(True)
C1_UpstreamSkipsDisabled ==
    \A i \in 1..Len(loaded.items) :
        loaded.items[i].enabled =>
            LET before == {j \in 1..(i - 1) : loaded.items[j].enabled}
            IN  loaded.items[i].upstream =
                    IF before = {} THEN DefaultBranch
                    ELSE loaded.items[CHOOSE j \in before :
                                          \A k \in before : k <= j].branch

\* C2: an extend leaves every item that was persisted before it at its
\* position, unchanged, and makes the persisted list one item longer
C2_ExtendAppendOnly ==
    [][(last'.op = "extend" /\ ~last'.raised) =>
          /\ Len(stack') = Len(stack) + 1
          /\ \A i \in 1..Len(stack) : stack'[i] = stack[i]]_vars

\* C3: the branch names of the persisted items are pairwise distinct
C3_BranchNamesUnique ==
    \A i, j \in 1..Len(stack) :
        stack[i].branch = stack[j].branch => i = j

\* C6: enable and disable with a position outside [1, length] raise and
\* leave the persisted stack unchanged
C6_OutOfRangeRaises ==
    [][(last'.op \in {"enable", "disable"} /\ last'.num \notin 1..Len(stack)) =>
          (last'.raised /\ stack' = stack)]_vars

\* C7: an enable (a disable) that repeats the enable (the disable) before it,
\* at the same position in [1, length], leaves the persisted stack as the
\* first left it
C7_EnableDisableIdempotent ==
    [][(last'.op \in {"enable", "disable"} /\ last'.rep
            /\ last'.num \in 1..Len(stack)) =>
          stack' = stack]_vars

C7_Witness ==
    /\ last.op = "disable" /\ last.rep /\ ~last.raised
    /\ Len(stack) >= 3
    /\ last.num = 2
    /\ ~stack[2].enabled /\ stack[1].enabled /\ stack[3].enabled

\* C8: load(True) returns the persisted items, all of them, in persisted
\* order; load(False) returns the enabled ones among them, in the same order
C8_LoadReturns ==
    [][IF loaded'.incl
       THEN /\ Len(loaded'.items) = Len(stack)
            /\ \A i \in 1..Len(stack) : to_dict(loaded'.items[i]) = stack[i]
       ELSE /\ Len(loaded'.items) = Cardinality(EnabledPositions(stack))
            /\ \A k \in 1..Len(loaded'.items) :
                  to_dict(loaded'.items[k]) = stack[EnabledPos(stack, k)]]_vars

C8_Witness ==
    /\ last.op = "extend" /\ ~last.raised
    /\ ~loaded.incl
    /\ Len(loaded.items) = 2
    /\ loaded.items[2].branch = BranchName(3)

\* ------------------------------------------------ claims on ensure_branches

\* the branches of the disabled items of the persisted stack
DisabledBranches ==
    {stack[p].branch : p \in {q \in 1..Len(stack) : ~stack[q].enabled}}

\* the command an ensure_branches run issues is for the item the loop is at,
\* never before an item already handled; git branch only for a branch that
\* does not exist locally, from the item's initial_sha; git branch -u for a
\* branch that exists locally, to the item's upstream, which origin has; git
\* push only for a branch origin has not
C12_Step ==
    (eb.status = "running" /\ Len(eb'.log) = Len(eb.log) + 1) =>
        LET c    == eb'.log[Len(eb'.log)]
            item == eb.items[eb.i]
        IN  /\ c.item = eb.i /\ c.branch = item.branch
            /\ \A k \in 1..Len(eb.log) : eb.log[k].item <= c.item
            /\ item.enabled
            /\ c.op = "branch" =>
                  /\ item.branch \notin git.local
                  /\ c.arg = <<"sha", item.initial_sha>>
                  /\ \A k \in 1..Len(eb.log) : eb.log[k].item # c.item
            /\ c.op = "set_upstream" =>
                  /\ item.branch \in git.local
                  /\ c.arg = item.upstream
                  /\ c.arg = DefaultBranch \/ c.arg \in git.remote
                  /\ \A k \in 1..Len(eb.log) :
                        eb.log[k].item = c.item => eb.log[k].op = "branch"
            /\ c.op = "push" =>
                  /\ item.branch \notin git.remote
                  /\ eb.log[Len(eb.log)].op = "set_upstream"
                  /\ eb.log[Len(eb.log)].item = c.item

\* no command of an ensure_branches run is for the branch of a disabled item
C12_DisabledUntouched ==
    (eb.status = "running" /\ Len(eb'.log) = Len(eb.log) + 1) =>
        eb'.log[Len(eb'.log)].branch \notin DisabledBranches

\* a run that ends without failure has set the upstream of the branch of
\* every enabled item, in stack order, and leaves each with a local branch
\* and a branch on origin
C12_Done ==
    eb.status = "done" =>
        /\ Len(eb.items) = Cardinality(EnabledPositions(stack))
        /\ \A k \in 1..Len(eb.items) :
              /\ eb.items[k].branch = stack[EnabledPos(stack, k)].branch
              /\ eb.items[k].branch \in git.local
              /\ eb.items[k].branch \in git.remote
              /\ \E n \in 1..Len(eb.log) :
                    /\ eb.log[n].op = "set_upstream"
                    /\ eb.log[n].item = k
                    /\ eb.log[n].ok

\* C12: ensure_branches handles the enabled items in ascending stack order;
\* for each it creates the local branch from initial_sha only when there is
\* none, always sets its upstream to origin/<upstream>, which exists by then,
\* and pushes only when origin has no such branch; a run that completes
\* leaves every enabled item with a local branch and a branch on origin; the
\* branch of a disabled item is never created, re-pointed or pushed
C12_EnsureBranches ==
    /\ [][C12_Step]_vars
    /\ [][C12_DisabledUntouched]_vars
    /\ []C12_Done

\* ------------------------------------------------------ claims on rebase_all

\* the stack positions rebase_all(start) is to sweep: the enabled items at a
\* position at or after start
SweptPositions == {p \in EnabledPositions(stack) : p >= rb.start}

\* the stack position of the item the k-th command of the run was issued for
LogPosition(k) == EnabledPos(stack, vcsLog[k].item)

\* C9: rebase_all(start) issues its commands only for enabled items at a stack
\* position >= start, in ascending order, and a run that ends without failure
\* has run checkout, fetch, rebase and push for every one of them
C9_RebaseSweepsFromPosition ==
    /\ \A k \in 1..Len(vcsLog) : LogPosition(k) \in SweptPositions
    /\ \A k, l \in 1..Len(vcsLog) : k <= l => LogPosition(k) <= LogPosition(l)
    /\ rb.status = "done" =>
          \A p \in SweptPositions : \A s \in 1..4 :
              \E k \in 1..Len(vcsLog) :
                  LogPosition(k) = p /\ vcsLog[k].op = Steps[s]

\* C10: the commands of a run are checkout, fetch, rebase, push of the first
\* swept item, then of the next, each issued once; a command that
\* fails is the last the run issues, and ends the run
C10_RebaseOrderAndAbort ==
    /\ \A k \in 1..Len(vcsLog) :
          /\ vcsLog[k].op = Steps[((k - 1) % 4) + 1]
          /\ vcsLog[k].item = vcsLog[1].item + ((k - 1) \div 4)
          /\ vcsLog[k].arg = StepArg(rb.items[vcsLog[k].item], vcsLog[k].op)
    /\ \A k \in 1..(Len(vcsLog) - 1) : vcsLog[k].ok
    /\ rb.status = "failed" <=> (Len(vcsLog) > 0 /\ ~vcsLog[Len(vcsLog)].ok)
    /\ rb.status = "running" =>
          /\ rb.i = (IF vcsLog = <<>> THEN NextSwept(rb.items, 1, rb.start)
                     ELSE vcsLog[1].item + (Len(vcsLog) \div 4))
          /\ rb.step = Steps[(Len(vcsLog) % 4) + 1]

\* the fetch of the second of three swept items failed
C10_Witness ==
    /\ rb.status = "failed"
    /\ Len(rb.items) = 3
    /\ rb.start <= 1
    /\ Len(vcsLog) = 6
    /\ vcsLog[4].op = "push" /\ vcsLog[4].ok /\ vcsLog[5].op = "checkout"

\* ------------------------------------------------- claims on PullRequest.edit

\* where the first marker of text s starts
FirstMarker(s) ==
    CHOOSE i \in 1..Len(s) :
        /\ SubSeq(s, i, i + Len(Marker) - 1) = Marker
        /\ \A j \in 1..(i - 1) : SubSeq(s, j, j + Len(Marker) - 1) # Marker

\* text s holds the marker
HasMarker(s) ==
    \E i \in 1..(Len(s) - Len(Marker) + 1) :
        SubSeq(s, i, i + Len(Marker) - 1) = Marker

\* C5: the body an edit writes is the regenerated prefix followed by all the
\* text that followed the first marker of the remote body, whatever that text
\* holds
C5_EditKeepsSuffix ==
    edited.status = "edited" =>
        edited.new = edited.prefix
            \o SubSeq(edited.old, FirstMarker(edited.old) + Len(Marker),
                      Len(edited.old))

\* C13: an edit of a pull request whose remote body does not hold the marker
\* ends in an error, sends no gh pr edit and leaves the remote body as it was
C13_NoMarkerNoEdit ==
    [][(~HasMarker(remoteBody) /\ edited' # edited) =>
          /\ edited'.status = "IndexError"
          /\ edited'.old = remoteBody
          /\ remoteBody' = remoteBody]_vars

C13_Witness ==
    /\ edited.status = "IndexError"
    /\ Len(edited.old) > 1
    /\ ~HasMarker(edited.old)
    /\ remoteBody = edited.old

\* ------------------------------------------------------ claims on ensure_prs

\* the task of an enabled item goes to create exactly when the review service
\* reported no pull request or a closed one, and to edit otherwise
C4_DecisionTable ==
    \A t \in 1..Len(tasks) :
        (tasks[t].enabled /\ tasks[t].seen # "none") =>
            /\ tasks[t].pc = "create" => tasks[t].seen \in {"NotFound", "CLOSED"}
            /\ tasks[t].pc = "edit" => tasks[t].seen \in {"OPEN", "DRAFT", "MERGED"}
            /\ tasks[t].seen \in {"OPEN", "DRAFT", "MERGED"} =>
                  tasks[t].pc \in {"edit", "done", "failed", "cancelled"}

\* no gh pr create reaches the review service for a branch whose pull request
\* an earlier create of this program opened (and nobody changed since)
C4_NoSecondCreate ==
    \A t \in 1..Len(tasks) :
        (tasks[t].pc = "create" /\ tasks'[t].pc \in {"done", "failed"}) =>
            tasks[t].branch \notin created

\* C4: ensure on an enabled item creates exactly when the service reports no
\* pull request or a closed one and edits otherwise; so, with no change by
\* others, the branch of an enabled item gets at most one create, and once its
\* pull request is created every later ensure edits
C4_CreateOnce ==
    /\ []C4_DecisionTable
    /\ [][C4_NoSecondCreate]_vars

\* C11: a task that fails does not keep the other tasks of the run from
\* running to their end: when the run has ended in failure every task has
\* ended, done or failed, and none was cancelled
C11_FailuresCollected ==
    sync.status = "failed" =>
        \A t \in 1..Len(tasks) : tasks[t].pc \in {"done", "failed"}

\* the task of a disabled item issues no hack_skip_ci and no gh pr create,
\* and its gh pr edit is given no base
C14_DisabledCommands ==
    \A t \in 1..Len(tasks) :
        ~tasks[t].enabled =>
            /\ tasks[t].pc # "create"
            /\ \A n \in 1..Len(tasks[t].log) :
                  /\ tasks[t].log[n].op \notin {"hack_skip_ci", "create"}
                  /\ tasks[t].log[n].op = "edit" =>
                        tasks[t].log[n].base = NoBase

\* the gh pr edit of the task of a disabled item leaves the state, the base
\* and the title of the pull request as they were
C14_DisabledEditKeepsBase ==
    \A t \in 1..Len(tasks) :
        (~tasks[t].enabled /\ tasks[t].pc = "edit" /\ tasks'[t].pc = "done") =>
            /\ pr'[tasks[t].branch].base = pr[tasks[t].branch].base
            /\ pr'[tasks[t].branch].state = pr[tasks[t].branch].state
            /\ pr'[tasks[t].branch].title = pr[tasks[t].branch].title

\* C14: ensure on a disabled item never creates and never runs hack_skip_ci,
\* whatever the state of the pull request; it only edits, and the edit is
\* given no base, so the base of the pull request stays as it was
C14_DisabledNeverCreates ==
    /\ []C14_DisabledCommands
    /\ [][C14_DisabledEditKeepsBase]_vars

\* the task of a disabled item found a closed pull request and has edited it
C14_Witness ==
    \E t \in 1..Len(tasks) :
        /\ ~tasks[t].enabled
        /\ tasks[t].seen = "CLOSED"
        /\ tasks[t].pc = "done"
        /\ pr[tasks[t].branch].body = [k |-> tasks[t].k, links |-> tasks[t].links]
        /\ pr[tasks[t].branch].base = <<"other", 0>>
        /\ pr[tasks[t].branch].base # tasks[t].base

\* ----------------------------------------------------------- claims on submit

\* a submit answered with anything but "y" has exited and issued nothing, and
\* every gh pr ready issued is of a submit that was answered "y"
C15_OnlyAfterYes ==
    /\ (sub.answer \notin {"none", "y"}) =>
          (sub.status = "exited" /\ sub.log = <<>>)
    /\ sub.log # <<>> => sub.answer = "y"

\* a pull request changes only by a gh pr ready of a submit answered "y",
\* and each gh pr ready is for the branch of an enabled item, one per item in
\* stack order, and for the branch of no disabled item
C15_Step ==
    /\ pr' # pr => (sub.answer = "y" /\ Len(sub'.log) = Len(sub.log) + 1)
    /\ (Len(sub'.log) = Len(sub.log) + 1) =>
          LET c == sub'.log[Len(sub'.log)]
          IN  /\ c.item = Len(sub.log) + 1
              /\ c.branch = stack[EnabledPos(stack, c.item)].branch
              /\ c.branch \notin DisabledBranches

\* a submit that ends without failure has issued gh pr ready for the branch of
\* every enabled item
C15_Done ==
    sub.status = "done" =>
        \A p \in EnabledPositions(stack) :
            \E n \in 1..Len(sub.log) :
                sub.log[n].branch = stack[p].branch /\ sub.log[n].ok

\* C15: submit issues gh pr ready only after the prompt was answered "y" and
\* touches no pull request otherwise; then it issues gh pr ready for the
\* branch of every enabled item and for no disabled item
C15_SubmitAfterConfirmation ==
    /\ []C15_OnlyAfterYes
    /\ [][C15_Step]_vars
    /\ []C15_Done

\* ------------------------------------------------------------- claims on sync

\* both halves of the last sync have ended without failure
SyncDone ==
    /\ eb.status = "done"
    /\ sync.status = "done"

\* C16: after a sync that completes without failure, the base every enabled
\* item's pull request was given, on create or on edit, is the branch
\* ensure_branches made the upstream its branch tracks
C16_BaseIsTrackedUpstream ==
    SyncDone =>
        \A t \in 1..Len(tasks) :
            tasks[t].enabled =>
                \A n \in 1..Len(tasks[t].log) :
                    tasks[t].log[n].op \in {"create", "edit"} =>
                        tasks[t].log[n].base = git.tracking[tasks[t].branch]

\* in the body of the pull request of every item, the line of every item that
\* has a pull request shows the url of that pull request
LinksConsistent ==
    \A t \in 1..Len(tasks) :
        pr[tasks[t].branch].state # "NotFound" =>
            /\ Len(pr[tasks[t].branch].body.links) = Len(tasks)
            /\ \A j \in 1..Len(tasks) :
                  pr[tasks[j].branch].state # "NotFound" =>
                      pr[tasks[t].branch].body.links[j]
                          = <<"url", tasks[j].branch[2]>>

\* C17: when an ensure_prs run ends without failure, the body of every pull
\* request shows, for every item of the stack that has a pull request by
\* then, the url of that pull request and not "(none)"
C17_LinksShowCreatedPrs ==
    [][(sync.status = "running" /\ sync'.status = "done") =>
          LinksConsistent']_vars

\* while ensure_prs runs, the end of the create or edit of a task changes the
\* pull request of the branch of that task only, and the persisted stack
\* does not change
C18_OwnPrOnly ==
    sync.status = "running" =>
        /\ stack' = stack
        /\ \A t \in 1..Len(tasks) :
              (tasks[t].pc \in {"create", "edit"} /\ tasks'[t].pc = "done") =>
                  \A b \in Branches :
                      b # tasks[t].branch => pr'[b] = pr[b]

\* when a run ends without failure, every pull request is as the tasks run
\* one after the other, in position order, leave it
C18_AsSequential ==
    (sync.status = "running" /\ sync'.status = "done") =>
        LET r == SeqEnsure([ok |-> TRUE, pr |-> sync.before], tasks, 1)
        IN  r.ok /\ pr' = r.pr

\* C18: whatever the interleaving of the tasks of ensure_prs, each task
\* changes the pull request of its own branch only, none changes the
\* persisted stack, and the title, base and body of every pull request end as
\* when the items are ensured one at a time in position order
C18_InterleavingIndependent ==
    /\ [][C18_OwnPrOnly]_vars
    /\ [][C18_AsSequential]_vars

\* -------------------------------------------------- claims on the body prefix

\* the line of the prefix for a link, with the turtle or the egg
LinkLine(emoji, link) == "- " \o emoji \o " " \o LinkText(link) \o "\n"

\* C19: the prefix composed for the item at position t of a stack of n items
\* is the "## Links" header, n link lines in stack order, a blank line and
\* "## Description"; the t-th line, and no other, carries the turtle, whether
\* the item or the items before it are disabled or not
C19_PrefixLayout ==
    \A t \in 1..Len(tasks) :
        LET p == tasks[t].body_prefix
            n == Len(stack)
        IN  /\ Len(tasks) = n
            /\ tasks[t].branch = stack[t].branch
            /\ Len(p) = n + 2 + Len(Marker)
            /\ p[1] = "## Links\n"
            /\ \A j \in 1..n :
                  p[j + 1] = LinkLine(IF j = t THEN "turtle" ELSE "egg",
                                      get_pr_link(sync.before, stack[j].branch))
            /\ p[n + 2] = "\n"
            /\ SubSeq(p, n + 3, Len(p)) = Marker

\* the prefix of the second item, disabled, behind a disabled first item that
\* has a pull request
C19_Witness ==
    /\ Len(tasks) = 2
    /\ ~tasks[1].enabled /\ ~tasks[2].enabled
    /\ tasks[2].links[1] = <<"url", 1>>
    /\ tasks[2].body_prefix[3] = "- turtle (none)\n"

\* --------------------------------------------- claims on enable and disable

\* C20: an enable or a disable at a position in [1, length] does not raise
\* and changes the enabled flag of the item at that position and nothing
\* else: the persisted list keeps its length and order, every other item and
\* the subject, branch, title and initial_sha of the item addressed stay as
\* they were, and no command on a branch or a pull request is issued
C20_OnlyEnabledFlagChanges ==
    [][(last'.op \in {"enable", "disable"} /\ last'.num \in 1..Len(stack)) =>
          /\ ~last'.raised
          /\ Len(stack') = Len(stack)
          /\ \A i \in 1..Len(stack) :
                /\ stack'[i].subject = stack[i].subject
                /\ stack'[i].branch = stack[i].branch
                /\ stack'[i].title = stack[i].title
                /\ stack'[i].initial_sha = stack[i].initial_sha
                /\ stack'[i].enabled =
                      IF i = last'.num THEN last'.op = "enable"
                      ELSE stack[i].enabled
                /\ DOMAIN stack'[i] = DOMAIN stack[i]
          /\ UNCHANGED <<git, eb, vcsLog, rb, pr, tasks, sync, sub>>]_vars

\* the second of three items was enabled again, behind a disabled first item
C20_Witness ==
    /\ last.op = "enable" /\ ~last.raised /\ ~last.rep
    /\ last.num = 2
    /\ Len(stack) = 3
    /\ ~stack[1].enabled /\ stack[2].enabled /\ ~stack[3].enabled

====
